---- MODULE Spec2Model ----
(***************************************************************************)
(* Point-in-time (PIT) view over a versioned GCS bucket, and the legacy    *)
(* GCS block-storage adapter, of repo/blob/gcs.                            *)
(*                                                                         *)
(* Strings are sequences of one-character strings, times are naturals      *)
(* (0 is the zero time.Time), and an error is named by its cause.          *)
(***************************************************************************)
EXTENDS Integers, Sequences, FiniteSets, TLC

VARIABLES
    rvs,        \* resolver harness: the []versionMetadata handed to the resolver
    resolved,   \* resolver harness: results of newestAtUnlessDeleted(rvs, t), per t
    bucket,     \* the GCS bucket: object name -> its generations, oldest first
    versioning, \* BucketAttrs.VersioningEnabled
    order,      \* order in which the backend lists the generations of one object
    Prefix,     \* GCSStorageOptions.Prefix of the storage handle
    clock,      \* number of mutations the bucket has seen
    store,      \* what maybePointInTimeStore returned to its caller
    res,        \* outcome of the last storage call
    lb,         \* the ListBlocks call in progress: its goroutine, channel and consumer
    cfg         \* construction of a storage from its options, and its Configuration()

vars == <<rvs, resolved, bucket, versioning, order, Prefix, clock, store, res, lb, cfg>>

-----------------------------------------------------------------------------
(* Bounds of the model *)

MaxTs == 4      \* resolver harness: timestamps are 1..MaxTs
MaxLen == 3     \* resolver harness: at most MaxLen version records
MaxTime == 3    \* at most MaxTime mutations of the bucket
MaxPage == 2    \* the backend returns at most MaxPage objects per page
MaxFetches == 4 \* ListBlocks is followed for at most MaxFetches page requests

(* Program constants *)

ChanCap == 100  \* capacity of the channel ListBlocks returns

-----------------------------------------------------------------------------
(* Strings *)

Alphabet == <<"1", "a", "p">>

CharRank(c) == CHOOSE i \in 1..Len(Alphabet) : Alphabet[i] = c

HasPrefix(s, p) == Len(p) =< Len(s) /\ SubSeq(s, 1, Len(p)) = p

\* strings.TrimPrefix
TrimPrefix(s, p) == IF HasPrefix(s, p) THEN SubSeq(s, Len(p) + 1, Len(s)) ELSE s

RECURSIVE StrLess(_, _)
StrLess(s, t) ==
    IF Len(t) = 0 THEN FALSE
    ELSE IF Len(s) = 0 THEN TRUE
    ELSE IF s[1] # t[1] THEN CharRank(s[1]) < CharRank(t[1])
    ELSE StrLess(Tail(s), Tail(t))

Min(S) == CHOOSE x \in S : \A y \in S : x =< y

-----------------------------------------------------------------------------
(* Point-in-time resolver *)

\* time.Time.After
After(a, b) == a > b

\* time.Time.Before
Before(a, b) == a < b

NoVersion ==
    [BlobID |-> <<>>, Length |-> 0, Timestamp |-> 0,
     IsDeleteMarker |-> FALSE, Version |-> 0]

\* the loop of getOlderThan with its test negated
getOlderThanNegated(vs, t) ==
    LET newer == {i \in 1..Len(vs) : ~After(vs[i].Timestamp, t)}
    IN  IF newer = {} THEN vs ELSE SubSeq(vs, 1, Min(newer) - 1)

\* vs[:i] for the first i whose Timestamp is after t, else vs
getOlderThan(vs, t) ==
    LET newer == {i \in 1..Len(vs) : After(vs[i].Timestamp, t)}
    IN  IF newer = {} THEN vs ELSE SubSeq(vs, 1, Min(newer) - 1)

newestAtUnlessDeleted(vs, t) ==
    LET older == getOlderThan(vs, t)
    IN  IF Len(older) = 0
        THEN [v |-> NoVersion, found |-> FALSE]
        ELSE [v |-> older[Len(older)], found |-> ~older[Len(older)].IsDeleteMarker]

-----------------------------------------------------------------------------
(* Resolver harness: a version sequence of one blob, sorted by Timestamp,   *)
(* resolved at horizons t.                                                  *)

IsDescending(vs) ==
    \A i \in 1..Len(vs) - 1 : vs[i].Timestamp > vs[i + 1].Timestamp

IsAscending(vs) ==
    \A i \in 1..Len(vs) - 1 : vs[i].Timestamp < vs[i + 1].Timestamp

HarnessRecords ==
    {[BlobID |-> <<"a">>, Length |-> 1, Timestamp |-> ts,
      IsDeleteMarker |-> d, Version |-> ts] : ts \in 1..MaxTs, d \in BOOLEAN}

HarnessSeqs ==
    {vs \in UNION {[1..n -> HarnessRecords] : n \in 0..MaxLen} :
        IsDescending(vs) \/ IsAscending(vs)}

Horizons == 0..(MaxTs + 1)

IdleStorage ==
    /\ bucket = <<>>
    /\ versioning = FALSE
    /\ order = "asc"
    /\ Prefix = <<>>
    /\ clock = 0
    /\ store = "none"
    /\ res = "none"
    /\ lb = "none"

InitResolver ==
    /\ rvs \in HarnessSeqs
    /\ resolved = {}
    /\ IdleStorage
    /\ cfg = "none"

Resolve(t) ==
    /\ \A r \in resolved : r.t # t
    /\ resolved' = resolved \cup
           {[t |-> t, v |-> newestAtUnlessDeleted(rvs, t).v,
             found |-> newestAtUnlessDeleted(rvs, t).found]}
    /\ UNCHANGED <<cfg, rvs, bucket, versioning, order, Prefix, clock, store, res, lb>>

NextResolver == \E t \in Horizons : Resolve(t)

SpecResolver == InitResolver /\ [][NextResolver]_vars

-----------------------------------------------------------------------------
(* The bucket. A generation is [Name, Size, Created, Deleted, Generation]:  *)
(* storage.ObjectAttrs; Deleted = 0 while the generation is live.           *)

IDs == {<<"a">>, <<"a", "1">>, <<"p", "a">>}

Prefixes == {<<>>, <<"p">>}

\* the blob ID prefixes the listings are asked for
ListPrefixes == {<<>>, <<"a">>}

ObjNames == IDs \cup {p \o id : p \in Prefixes, id \in IDs}

EmptyBucket == [n \in ObjNames |-> <<>>]

HasLive(b, name) == \E i \in 1..Len(b[name]) : b[name][i].Deleted = 0

\* the live generation becomes noncurrent at time now (kept only when versioning)
Retire(gens, now) ==
    IF versioning
    THEN [i \in 1..Len(gens) |->
             IF gens[i].Deleted = 0 THEN [gens[i] EXCEPT !.Deleted = now] ELSE gens[i]]
    ELSE <<>>

\* objectsService.Insert(...).Do(), with IfGenerationMatch(0) when ifAbsent; every
\* write stores a payload of its own length, so that Size tells the writes apart
BucketInsert(b, name, now, ifAbsent) ==
    IF ifAbsent /\ HasLive(b, name)
    THEN [err |-> "PreconditionFailed", addressed |-> {name}, bucket |-> b]
    ELSE [err |-> "nil", addressed |-> {name},
          bucket |-> [b EXCEPT ![name] =
              Append(Retire(b[name], now),
                     [Name |-> name, Size |-> now, Created |-> now,
                      Deleted |-> 0, Generation |-> now])]]

\* objectsService.Delete(...).Do()
BucketDelete(b, name, now) ==
    IF name \notin ObjNames \/ ~HasLive(b, name)
    THEN [err |-> "HTTP404", addressed |-> {name}, bucket |-> b]
    ELSE [err |-> "nil", addressed |-> {name},
          bucket |-> [b EXCEPT ![name] = Retire(b[name], now)]]

getObjectNameString(b) == Prefix \o b

\* the time of the next mutation of the bucket
Now == 2 * (clock + 1)

\* gcsStorage.PutBlock
PutBlock(b, overwrite) ==
    BucketInsert(bucket, getObjectNameString(b), Now, ~overwrite)

\* gcsStorage.DeleteBlock: the object is addressed by string(b)
DeleteBlock(b) ==
    LET r == BucketDelete(bucket, b, Now)
    IN  [err |-> IF r.err = "nil" THEN "nil" ELSE "unable to delete block",
         addressed |-> r.addressed, bucket |-> r.bucket]

\* objectsService.Get(BucketName, name): the live generation of the object, if any;
\* ok is whether the backend answers the request at all
BucketGet(b, name, ok) ==
    IF ~ok THEN [err |-> "HTTP500", addressed |-> {name}, size |-> 0]
    ELSE IF name \notin ObjNames \/ ~HasLive(b, name)
    THEN [err |-> "HTTP404", addressed |-> {name}, size |-> 0]
    ELSE [err |-> "nil", addressed |-> {name},
          size |-> b[name][CHOOSE i \in 1..Len(b[name]) : b[name][i].Deleted = 0].Size]

\* gcsStorage.BlockExists
BlockExists(b, ok) ==
    LET r == BucketGet(bucket, getObjectNameString(b), ok)
    IN  [exists |-> r.err = "nil", err |-> r.err, addressed |-> r.addressed]

\* gcsStorage.GetBlock: the payload is known by its length
GetBlock(b, ok) ==
    LET r == BucketGet(bucket, getObjectNameString(b), ok)
    IN  [err |-> IF r.err = "nil" THEN "nil"
                 ELSE IF r.err = "HTTP404" THEN "NotFound"
                 ELSE "unable to get block",
         addressed |-> r.addressed, data |-> r.size]

-----------------------------------------------------------------------------
(* Listing of object versions: bucket.Objects(ctx, &Query{Prefix, Versions}) *)

Reverse(s) == [i \in 1..Len(s) |-> s[Len(s) + 1 - i]]

RECURSIVE SortNames(_)
SortNames(S) ==
    IF S = {} THEN <<>>
    ELSE LET m == CHOOSE x \in S : \A y \in S \ {x} : StrLess(x, y)
         IN  <<m>> \o SortNames(S \ {m})

SortedObjNames == SortNames(ObjNames)

RECURSIVE Concat(_, _)
Concat(names, b) ==
    IF Len(names) = 0 THEN <<>>
    ELSE (IF order = "asc" THEN b[names[1]] ELSE Reverse(b[names[1]]))
         \o Concat(Tail(names), b)

\* every generation of every object whose name starts with qp, by name
Objects(qp) ==
    LET Listed(n) == HasPrefix(n, qp) /\ Len(bucket[n]) > 0
    IN  Concat(SelectSeq(SortedObjNames, Listed), bucket)

-----------------------------------------------------------------------------
(* gcsPointInTimeStorage *)

toBlobID(blobName, prefix) == TrimPrefix(blobName, prefix)

getVersionMetadata(prefix, oi, pit) ==
    [BlobID |-> toBlobID(oi.Name, prefix),
     Length |-> oi.Size,
     Timestamp |-> oi.Created,
     IsDeleteMarker |-> oi.Deleted # 0 /\ Before(oi.Deleted, pit),
     Version |-> oi.Generation]

\* the blob.Metadata embedded in a versionMetadata
Metadata(vm) == [BlobID |-> vm.BlobID, Length |-> vm.Length, Timestamp |-> vm.Timestamp]

\* state of the closures a listing drives, and of the loop of list
InitSt ==
    [err |-> "nil", previousID |-> <<>>, vs |-> <<>>, calls |-> <<>>,
     foundBlobs |-> FALSE, passed |-> <<>>, vml |-> <<>>, failedAt |-> 0,
     cbFailedAt |-> 0]

\* cb(v.Metadata): the caller's callback fails at its cbFailAt-th invocation
InvokeCb(st, bm, cbFailAt) ==
    IF Len(st.calls) + 1 = cbFailAt
    THEN [st EXCEPT !.calls = Append(st.calls, bm), !.err = "cb",
                    !.cbFailedAt = cbFailAt]
    ELSE [st EXCEPT !.calls = Append(st.calls, bm)]

\* the callback ListBlobs hands to listBlobVersions
ListBlobsCallback(st, vm, pit, cbFailAt) ==
    IF vm.BlobID # st.previousID
    THEN LET r == newestAtUnlessDeleted(st.vs, pit)
             st2 == IF r.found THEN InvokeCb(st, Metadata(r.v), cbFailAt) ELSE st
         IN  IF st2.err # "nil" THEN st2
             ELSE [st2 EXCEPT !.previousID = vm.BlobID, !.vs = <<vm>>]
    ELSE [st EXCEPT !.vs = Append(st.vs, vm)]

\* the callbacks of getBlobVersions and getMetadata; passed is what getBlobVersions
\* handed to its callback
getMetadataCallback(st, m, pit) ==
    [st EXCEPT !.foundBlobs = TRUE,
               !.passed = Append(st.passed, m),
               !.vml = IF ~After(m.Timestamp, pit) THEN Append(st.vml, m) ELSE st.vml]

Callback(mode, st, vm, pit, cbFailAt) ==
    IF mode = "ListBlobs" THEN ListBlobsCallback(st, vm, pit, cbFailAt)
    ELSE getMetadataCallback(st, vm, pit)

\* list with the iterator's error taken for iterator.Done
RECURSIVE listIgnoringIteratorError(_, _, _, _, _, _, _, _, _)
listIgnoringIteratorError(objs, qp, onlyMatching, pit, mode, failAt, cbFailAt, i, st) ==
    IF i = failAt THEN [st EXCEPT !.failedAt = i]
    ELSE IF i > Len(objs) THEN st
    ELSE IF onlyMatching /\ objs[i].Name # qp THEN st
    ELSE LET st2 == Callback(mode, st, getVersionMetadata(qp, objs[i], pit), pit, cbFailAt)
         IN  IF st2.err # "nil" THEN st2
             ELSE listIgnoringIteratorError(objs, qp, onlyMatching, pit, mode,
                                            failAt, cbFailAt, i + 1, st2)

\* list with the callback's error dropped
RECURSIVE listIgnoringCallbackError(_, _, _, _, _, _, _, _, _)
listIgnoringCallbackError(objs, qp, onlyMatching, pit, mode, failAt, cbFailAt, i, st) ==
    IF i = failAt THEN [st EXCEPT !.err = "iter", !.failedAt = i]
    ELSE IF i > Len(objs) THEN st
    ELSE IF onlyMatching /\ objs[i].Name # qp THEN st
    ELSE LET st2 == Callback(mode, st, getVersionMetadata(qp, objs[i], pit), pit, cbFailAt)
             st3 == [st2 EXCEPT !.err = "nil"]
         IN  listIgnoringCallbackError(objs, qp, onlyMatching, pit, mode,
                                       failAt, cbFailAt, i + 1, st3)

\* list that never stops at a name other than the query's
RECURSIVE listEveryMatch(_, _, _, _, _, _, _, _, _)
listEveryMatch(objs, qp, onlyMatching, pit, mode, failAt, cbFailAt, i, st) ==
    IF i = failAt THEN [st EXCEPT !.err = "iter", !.failedAt = i]
    ELSE IF i > Len(objs) THEN st
    ELSE LET st2 == Callback(mode, st, getVersionMetadata(qp, objs[i], pit), pit, cbFailAt)
         IN  IF st2.err # "nil" THEN st2
             ELSE listEveryMatch(objs, qp, onlyMatching, pit, mode, failAt, cbFailAt,
                                 i + 1, st2)

\* the loop of list from the i-th call of it.Next, which fails when i = failAt
RECURSIVE list(_, _, _, _, _, _, _, _, _)
list(objs, qp, onlyMatching, pit, mode, failAt, cbFailAt, i, st) ==
    IF i = failAt THEN [st EXCEPT !.err = "iter", !.failedAt = i]
    ELSE IF i > Len(objs) THEN st
    ELSE IF onlyMatching /\ objs[i].Name # qp THEN st
    ELSE LET st2 == Callback(mode, st, getVersionMetadata(qp, objs[i], pit), pit, cbFailAt)
         IN  IF st2.err # "nil" THEN st2
             ELSE list(objs, qp, onlyMatching, pit, mode, failAt, cbFailAt, i + 1, st2)

\* ListBlobs without the processing of the last blob after the listing
ListBlobsWithoutLast(blobIDPrefix, pit, failAt, cbFailAt) ==
    LET qp == getObjectNameString(blobIDPrefix)
    IN  list(Objects(qp), qp, FALSE, pit, "ListBlobs", failAt, cbFailAt, 1, InitSt)

\* ListBlobs after its listing ended in st: the last blob is processed
ProcessLastBlob(st, pit, cbFailAt) ==
    LET r == newestAtUnlessDeleted(st.vs, pit)
    IN  IF st.err # "nil" THEN st
        ELSE IF r.found THEN InvokeCb(st, Metadata(r.v), cbFailAt)
        ELSE st

\* the listing of the object versions under the name prefix qp
listFrom(qp, onlyMatching, pit, mode, failAt, cbFailAt) ==
    list(Objects(qp), qp, onlyMatching, pit, mode, failAt, cbFailAt, 1, InitSt)

\* gcsPointInTimeStorage.ListBlobs
ListBlobs(blobIDPrefix, pit, failAt, cbFailAt) ==
    ProcessLastBlob(listFrom(getObjectNameString(blobIDPrefix), FALSE, pit, "ListBlobs",
                             failAt, cbFailAt),
                    pit, cbFailAt)

\* getBlobVersions after its listing ended in st
FoundOrNot(st) ==
    IF st.err # "nil" THEN st
    ELSE IF ~st.foundBlobs THEN [st EXCEPT !.err = "NotFound"]
    ELSE st

\* gcsPointInTimeStorage.getBlobVersions under getMetadata's callback
getBlobVersions(b, pit, failAt) ==
    FoundOrNot(listFrom(getObjectNameString(b), TRUE, pit, "getMetadata", failAt, 0))

\* getMetadata after getBlobVersions returned st, with the resolver's answer r
Resolved(st, r) ==
    LET out == [err |-> st.err, v |-> NoVersion, failedAt |-> st.failedAt,
                passed |-> st.passed, versionsErr |-> st.err]
    IN  IF st.err # "nil" THEN out
        ELSE IF r.found THEN [out EXCEPT !.v = r.v]
        ELSE [out EXCEPT !.err = "NotFound"]

\* getMetadata after getBlobVersions returned st
ResolveAt(st, pit) == Resolved(st, newestAtUnlessDeleted(st.vml, pit))

\* gcsPointInTimeStorage.getMetadata
getMetadata(b, pit, failAt) == ResolveAt(getBlobVersions(b, pit, failAt), pit)

\* gcsStorage.getBlobWithVersion: fetches the payload of the generation named by
\* version of the object Prefix+b; the payload is known by its length
getBlobWithVersion(b, version) ==
    LET n == getObjectNameString(b)
        gens == {i \in 1..Len(bucket[n]) : bucket[n][i].Generation = version}
    IN  IF gens = {}
        THEN [err |-> "NotFound", fetched |-> {[Name |-> n, Generation |-> version]},
              data |-> 0]
        ELSE [err |-> "nil", fetched |-> {[Name |-> n, Generation |-> version]},
              data |-> bucket[n][CHOOSE i \in gens : TRUE].Size]

\* GetBlob after getMetadata returned m: the payload of generation version is fetched
Fetch(b, m, version) ==
    LET r == getBlobWithVersion(b, version)
    IN  IF m.err # "nil"
        THEN [err |-> m.err, fetched |-> {}, data |-> 0, failedAt |-> m.failedAt]
        ELSE [err |-> r.err, fetched |-> r.fetched, data |-> r.data, failedAt |-> 0]

\* GetBlob that fetches the latest generation of the object
GetBlobOfLatest(b, pit, failAt) ==
    LET gens == bucket[getObjectNameString(b)]
    IN  Fetch(b, getMetadata(b, pit, failAt),
              IF gens = <<>> THEN 0 ELSE gens[Len(gens)].Generation)

\* GetBlob after getMetadata returned m
FetchResolved(b, m) == Fetch(b, m, m.v.Version)

\* gcsPointInTimeStorage.GetBlob
GetBlob(b, pit, failAt) == FetchResolved(b, getMetadata(b, pit, failAt))

-----------------------------------------------------------------------------
(* Construction of the storage, and the calls made through it *)

\* the k-th mutation of the bucket happens at time 2k: a horizon is one of these
\* times or lies strictly between two of them
PITs ==
    {[isNil |-> TRUE, t |-> 0]} \cup
    {[isNil |-> FALSE, t |-> x] : x \in 0..(2 * MaxTime + 1)}

NoStore == [kind |-> "none", readonly |-> FALSE, pit |-> 0]

\* readonly.NewWrapper: the guard around the view
NewWrapper(s) == [s EXCEPT !.readonly = TRUE]

\* the guard rejects a mutating call without reaching the storage it wraps
Rejects(s) == s.readonly

\* maybePointInTimeStore returning the view without the read-only wrapper
maybePointInTimeStoreUnwrapped(pit, attrsOK) ==
    IF pit.isNil \/ pit.t = 0
    THEN [store |-> [kind |-> "live", readonly |-> FALSE, pit |-> 0],
          err |-> "nil", calls |-> {}]
    ELSE IF ~attrsOK
    THEN [store |-> [NoStore EXCEPT !.kind = "nil"], err |-> "attrs", calls |-> {"Attrs"}]
    ELSE IF ~versioning
    THEN [store |-> [NoStore EXCEPT !.kind = "nil"], err |-> "config", calls |-> {"Attrs"}]
    ELSE [store |-> [kind |-> "view", readonly |-> FALSE, pit |-> pit.t],
          err |-> "nil", calls |-> {"Attrs"}]

\* maybePointInTimeStore without the test of attrs.VersioningEnabled
maybePointInTimeStoreUnchecked(pit, attrsOK) ==
    IF pit.isNil \/ pit.t = 0
    THEN [store |-> [kind |-> "live", readonly |-> FALSE, pit |-> 0],
          err |-> "nil", calls |-> {}]
    ELSE IF ~attrsOK
    THEN [store |-> [NoStore EXCEPT !.kind = "nil"], err |-> "attrs", calls |-> {"Attrs"}]
    ELSE [store |-> NewWrapper([kind |-> "view", readonly |-> FALSE, pit |-> pit.t]),
          err |-> "nil", calls |-> {"Attrs"}]

\* pit is both gcs.Options.PointInTime and the pointInTime argument;
\* attrsOK is whether gcs.bucket.Attrs(ctx) succeeds
maybePointInTimeStore(pit, attrsOK) ==
    IF pit.isNil \/ pit.t = 0
    THEN [store |-> [kind |-> "live", readonly |-> FALSE, pit |-> 0],
          err |-> "nil", calls |-> {}]
    ELSE IF ~attrsOK
    THEN [store |-> [NoStore EXCEPT !.kind = "nil"], err |-> "attrs", calls |-> {"Attrs"}]
    ELSE IF ~versioning
    THEN [store |-> [NoStore EXCEPT !.kind = "nil"], err |-> "config", calls |-> {"Attrs"}]
    ELSE [store |-> NewWrapper([kind |-> "view", readonly |-> FALSE, pit |-> pit.t]),
          err |-> "nil", calls |-> {"Attrs"}]

NoRes ==
    [op |-> "none", via |-> "none", arg |-> <<>>, err |-> "nil", calls |-> {},
     changed |-> FALSE, out |-> NoVersion, cbs |-> <<>>, failedAt |-> 0,
     cbFailedAt |-> 0, pit |-> [isNil |-> TRUE, t |-> 0],
     addressed |-> {}, existed |-> FALSE, overwrite |-> FALSE, exists |-> FALSE,
     data |-> 0, passed |-> <<>>, versionsErr |-> "nil", fetched |-> {}]

Init ==
    /\ rvs = <<>>
    /\ resolved = {}
    /\ bucket = EmptyBucket
    /\ versioning \in BOOLEAN
    /\ order \in {"asc", "desc"}
    /\ Prefix \in Prefixes
    /\ clock = 0
    /\ store = NoStore
    /\ res = NoRes
    /\ lb = "none"
    /\ cfg = "none"

\* a Put through the gcsStorage handle itself
GcsPut(b, overwrite) ==
    LET r == PutBlock(b, overwrite)
    IN  /\ clock < MaxTime
        /\ bucket' = r.bucket
        /\ clock' = IF r.bucket # bucket THEN clock + 1 ELSE clock
        /\ res' = [NoRes EXCEPT !.op = "Put", !.via = "gcs", !.arg = b, !.err = r.err,
                                !.calls = {"Insert"}, !.changed = (r.bucket # bucket),
                                !.addressed = r.addressed, !.overwrite = overwrite,
                                !.existed = HasLive(bucket, getObjectNameString(b))]
        /\ UNCHANGED <<cfg, rvs, resolved, versioning, order, Prefix, store, lb>>

\* a Delete through the gcsStorage handle itself
GcsDelete(b) ==
    LET r == DeleteBlock(b)
    IN  /\ clock < MaxTime
        /\ bucket' = r.bucket
        /\ clock' = IF r.bucket # bucket THEN clock + 1 ELSE clock
        /\ res' = [NoRes EXCEPT !.op = "Delete", !.via = "gcs", !.arg = b, !.err = r.err,
                                !.calls = {"Delete"}, !.changed = (r.bucket # bucket),
                                !.addressed = r.addressed,
                                !.existed = HasLive(bucket, getObjectNameString(b))]
        /\ UNCHANGED <<cfg, rvs, resolved, versioning, order, Prefix, store, lb>>

\* GetBlock through the gcsStorage handle
GcsGet(b, ok) ==
    LET r == GetBlock(b, ok)
    IN  /\ res' = [NoRes EXCEPT !.op = "Get", !.via = "gcs", !.arg = b, !.err = r.err,
                                !.calls = {"Get"}, !.addressed = r.addressed,
                                !.data = r.data,
                                !.existed = HasLive(bucket, getObjectNameString(b))]
        /\ UNCHANGED <<cfg, rvs, resolved, bucket, versioning, order, Prefix, clock, store, lb>>

\* BlockExists through the gcsStorage handle
GcsExists(b, ok) ==
    LET r == BlockExists(b, ok)
    IN  /\ res' = [NoRes EXCEPT !.op = "Exists", !.via = "gcs", !.arg = b, !.err = r.err,
                                !.calls = {"Get"}, !.addressed = r.addressed,
                                !.exists = r.exists,
                                !.existed = HasLive(bucket, getObjectNameString(b))]
        /\ UNCHANGED <<cfg, rvs, resolved, bucket, versioning, order, Prefix, clock, store, lb>>

Construct(pit, attrsOK) ==
    LET r == maybePointInTimeStore(pit, attrsOK)
    IN  /\ store.kind = "none"
        /\ store' = r.store
        /\ res' = [NoRes EXCEPT !.op = "maybePointInTimeStore", !.via = "construct",
                                !.err = r.err, !.calls = r.calls, !.pit = pit]
        /\ UNCHANGED <<cfg, rvs, resolved, bucket, versioning, order, Prefix, clock, lb>>

\* Put on the blob.Storage maybePointInTimeStore returned
StorePut(b, overwrite) ==
    LET r == IF Rejects(store)
             THEN [err |-> "readonly", addressed |-> {}, bucket |-> bucket]
             ELSE PutBlock(b, overwrite)
    IN  /\ store.kind \in {"live", "view"}
        /\ clock < MaxTime
        /\ bucket' = r.bucket
        /\ clock' = IF r.bucket # bucket THEN clock + 1 ELSE clock
        /\ res' = [NoRes EXCEPT !.op = "Put", !.via = "store", !.arg = b, !.err = r.err,
                                !.calls = IF Rejects(store) THEN {} ELSE {"Insert"},
                                !.changed = (r.bucket # bucket),
                                !.addressed = r.addressed, !.overwrite = overwrite,
                                !.existed = HasLive(bucket, getObjectNameString(b))]
        /\ UNCHANGED <<cfg, rvs, resolved, versioning, order, Prefix, store, lb>>

\* Delete on the blob.Storage maybePointInTimeStore returned
StoreDelete(b) ==
    LET r == IF Rejects(store)
             THEN [err |-> "readonly", addressed |-> {}, bucket |-> bucket]
             ELSE DeleteBlock(b)
    IN  /\ store.kind \in {"live", "view"}
        /\ clock < MaxTime
        /\ bucket' = r.bucket
        /\ clock' = IF r.bucket # bucket THEN clock + 1 ELSE clock
        /\ res' = [NoRes EXCEPT !.op = "Delete", !.via = "store", !.arg = b, !.err = r.err,
                                !.calls = IF Rejects(store) THEN {} ELSE {"Delete"},
                                !.changed = (r.bucket # bucket),
                                !.addressed = r.addressed,
                                !.existed = HasLive(bucket, getObjectNameString(b))]
        /\ UNCHANGED <<cfg, rvs, resolved, versioning, order, Prefix, store, lb>>

\* ListBlobs on the point-in-time view
StoreListBlobs(prefix, failAt, cbFailAt) ==
    \E st \in {ListBlobs(prefix, store.pit, failAt, cbFailAt)} :
        /\ store.kind = "view"
        /\ res' = [NoRes EXCEPT !.op = "ListBlobs", !.via = "store", !.arg = prefix,
                                !.err = st.err, !.calls = {"Objects"}, !.cbs = st.calls,
                                !.failedAt = st.failedAt, !.cbFailedAt = st.cbFailedAt]
        /\ UNCHANGED <<cfg, rvs, resolved, bucket, versioning, order, Prefix, clock, store, lb>>

\* GetMetadata on the point-in-time view
StoreGetMetadata(b, failAt) ==
    \E r \in {getMetadata(b, store.pit, failAt)} :
        /\ store.kind = "view"
        /\ res' = [NoRes EXCEPT !.op = "GetMetadata", !.via = "store", !.arg = b,
                                !.err = r.err, !.calls = {"Objects"}, !.out = r.v,
                                !.failedAt = r.failedAt, !.passed = r.passed,
                                !.versionsErr = r.versionsErr]
        /\ UNCHANGED <<cfg, rvs, resolved, bucket, versioning, order, Prefix, clock, store, lb>>

\* GetBlob on the point-in-time view
StoreGetBlob(b, failAt) ==
    \E r \in {GetBlob(b, store.pit, failAt)} :
        /\ store.kind = "view"
        /\ res' = [NoRes EXCEPT !.op = "GetBlob", !.via = "store", !.arg = b,
                                !.err = r.err, !.failedAt = r.failedAt,
                                !.calls = IF r.fetched = {} THEN {"Objects"}
                                          ELSE {"Objects", "Download"},
                                !.fetched = r.fetched, !.data = r.data]
        /\ UNCHANGED <<cfg, rvs, resolved, bucket, versioning, order, Prefix, clock, store, lb>>

\* the failures one call can meet: none, its i-th it.Next, or its j-th cb; the
\* first failure ends the call, so a second one would never be seen
Failures(n) ==
    {<<0, 0>>} \cup {<<i, 0>> : i \in 1..(n + 1)} \cup {<<0, j>> : j \in 1..n}

\* the reading calls change neither the bucket nor the store, so one issued after
\* another reaches no state that a first one does not reach: they are explored
\* from the states whose last call was not one of them
LastCallListed == res.op \in {"ListBlobs", "GetMetadata", "GetBlob", "Get", "Exists"}

\* a Put or Delete on the live storage is the one of the handle, and the view
\* rejects both: every content of the bucket is reached before the construction,
\* and the handle's reading calls, which depend on nothing else, are explored there
BeforeConstruction == store.kind = "none"

Next ==
    \/ \E b \in IDs, ow \in BOOLEAN : GcsPut(b, ow)
    \/ \E b \in IDs : GcsDelete(b)
    \/ /\ BeforeConstruction /\ ~LastCallListed
       /\ \E b \in IDs, ok \in BOOLEAN : GcsGet(b, ok)
    \/ /\ BeforeConstruction /\ ~LastCallListed
       /\ \E b \in IDs, ok \in BOOLEAN : GcsExists(b, ok)
    \/ \E pit \in PITs, attrsOK \in BOOLEAN : Construct(pit, attrsOK)
    \/ \E b \in IDs, ow \in BOOLEAN : StorePut(b, ow)
    \/ \E b \in IDs : StoreDelete(b)
    \/ /\ store.kind = "view" /\ ~LastCallListed
       /\ \E prefix \in ListPrefixes :
          \E f \in Failures(Len(Objects(getObjectNameString(prefix)))) :
              StoreListBlobs(prefix, f[1], f[2])
    \/ /\ store.kind = "view" /\ ~LastCallListed
       /\ \E b \in IDs :
          \E f \in Failures(Len(Objects(getObjectNameString(b)))) :
              f[2] = 0 /\ StoreGetMetadata(b, f[1])
    \/ /\ store.kind = "view" /\ ~LastCallListed
       /\ \E b \in IDs :
          \E f \in Failures(Len(Objects(getObjectNameString(b)))) :
              f[2] = 0 /\ StoreGetBlob(b, f[1])

Spec == Init /\ [][Next]_vars

-----------------------------------------------------------------------------
(* gcsStorage.ListBlocks: a goroutine pages through the live objects under   *)
(* Prefix+prefix and sends them on a buffered channel, which it closes.      *)

\* the live objects whose name starts with ps, by name
LiveObjects(ps) ==
    LET Listed(n) == HasPrefix(n, ps) /\ HasLive(bucket, n)
        names == SelectSeq(SortedObjNames, Listed)
    IN  [k \in 1..Len(names) |->
            LET gens == bucket[names[k]]
            IN  gens[CHOOSE i \in 1..Len(gens) : gens[i].Deleted = 0]]

\* the continuation token of the page that starts after k objects
Token(k) == [i \in 1..k |-> "#"]

NilPage == [isNil |-> TRUE, Items |-> <<>>, NextPageToken |-> <<>>]

\* objectsService.List(bucket).PageToken(token).Prefix(ps).Do(): an empty token
\* asks for the first page, a token the backend did not issue is an error, and
\* the call's error is discarded, which leaves a nil page
ObjectsList(ps, token, pageSize, ok) ==
    LET all == LiveObjects(ps)
        issued == {Token(k) : k \in 1..Len(all)}
        start == Len(token)
        end == IF start + pageSize < Len(all) THEN start + pageSize ELSE Len(all)
    IN  IF ~ok \/ (token # <<>> /\ token \notin issued) THEN NilPage
        ELSE [isNil |-> FALSE, Items |-> SubSeq(all, start + 1, end),
              NextPageToken |-> IF end < Len(all) THEN Token(end) ELSE <<>>]

\* the BlockMetadata sent for object o; the backend's TimeCreated always parses,
\* so Error stays nil
BlockMetadata(o) ==
    [BlockID |-> SubSeq(o.Name, Len(Prefix) + 1, Len(o.Name)),
     Length |-> o.Size, TimeStamp |-> o.Created, Error |-> "nil"]

\* received, fetches and tokens are a history of the call, kept while logging: what
\* the consumer has received, the number of page requests and the tokens they sent
IdleLB ==
    [pc |-> "idle", ps |-> <<>>, pageSize |-> 1, page |-> NilPage, idx |-> 1,
     ch |-> <<>>, closed |-> FALSE, received |-> <<>>, fetches |-> 0,
     failed |-> FALSE, tokens |-> <<>>, logging |-> TRUE]

\* ListBlocks(prefix): makes the channel and starts the goroutine
LBStart(prefix) ==
    /\ lb.pc = "idle"
    /\ lb' = [lb EXCEPT !.pc = "first", !.ps = getObjectNameString(prefix)]
    /\ UNCHANGED <<cfg, rvs, resolved, bucket, versioning, order, Prefix, clock, store, res>>

\* where the goroutine goes with the page it was given
AfterFetch(page) == IF page.isNil THEN "close" ELSE "items"

\* page, _ := List(BucketName).Prefix(ps).Do()
LBFirstPage(ok) ==
    LET page == ObjectsList(lb.ps, <<>>, lb.pageSize, ok)
    IN  /\ lb.pc = "first"
        /\ lb' = [lb EXCEPT !.pc = AfterFetch(page), !.page = page, !.idx = 1,
                            !.fetches = IF lb.logging THEN 1 ELSE 0, !.failed = ~ok]
        /\ UNCHANGED <<cfg, rvs, resolved, bucket, versioning, order, Prefix, clock, store, res>>

\* ch <- BlockMetadata{...} for the next item of the page
LBSend ==
    /\ lb.pc = "items"
    /\ lb.idx =< Len(lb.page.Items)
    /\ Len(lb.ch) < ChanCap
    /\ lb' = [lb EXCEPT !.ch = Append(lb.ch, BlockMetadata(lb.page.Items[lb.idx])),
                        !.idx = lb.idx + 1]
    /\ UNCHANGED <<cfg, rvs, resolved, bucket, versioning, order, Prefix, clock, store, res>>

\* the token the next page is requested with
NextPageRequestToken == lb.ps

\* page, _ = List(BucketName).PageToken(ps).Prefix(ps).Do()
LBNextPage(ok) ==
    LET page == ObjectsList(lb.ps, NextPageRequestToken, lb.pageSize, ok)
    IN  /\ lb.pc = "items"
        /\ lb.idx > Len(lb.page.Items)
        /\ lb.page.NextPageToken # <<>>
        /\ lb.logging => lb.fetches < MaxFetches
        /\ lb' = [lb EXCEPT !.pc = AfterFetch(page), !.page = page, !.idx = 1,
                            !.fetches = IF lb.logging THEN lb.fetches + 1 ELSE 0,
                            !.failed = lb.failed \/ ~ok,
                            !.tokens = IF lb.logging
                                       THEN Append(lb.tokens,
                                                [sent |-> NextPageRequestToken,
                                                 returned |-> lb.page.NextPageToken])
                                       ELSE <<>>]
        /\ UNCHANGED <<cfg, rvs, resolved, bucket, versioning, order, Prefix, clock, store, res>>

\* the page has no NextPageToken: break
LBBreak ==
    /\ lb.pc = "items"
    /\ lb.idx > Len(lb.page.Items)
    /\ lb.page.NextPageToken = <<>>
    /\ lb' = [lb EXCEPT !.pc = "close"]
    /\ UNCHANGED <<cfg, rvs, resolved, bucket, versioning, order, Prefix, clock, store, res>>

\* close(ch)
LBClose ==
    /\ lb.pc = "close"
    /\ lb' = [lb EXCEPT !.pc = "done", !.closed = TRUE]
    /\ UNCHANGED <<cfg, rvs, resolved, bucket, versioning, order, Prefix, clock, store, res>>

\* the consumer receives from the channel
LBReceive ==
    /\ Len(lb.ch) > 0
    /\ lb' = [lb EXCEPT !.ch = Tail(lb.ch),
                        !.received = IF lb.logging THEN Append(lb.received, Head(lb.ch))
                                     ELSE <<>>]
    /\ UNCHANGED <<cfg, rvs, resolved, bucket, versioning, order, Prefix, clock, store, res>>

\* a bucket in which the objects named in S were each written once
RECURSIVE Populated(_, _)
Populated(names, k) ==
    IF Len(names) = 0 THEN EmptyBucket
    ELSE [Populated(Tail(names), k + 1) EXCEPT ![names[1]] =
             <<[Name |-> names[1], Size |-> 2 * k, Created |-> 2 * k,
                Deleted |-> 0, Generation |-> 2 * k]>>]

InitListBlocks ==
    /\ rvs = <<>>
    /\ resolved = {}
    /\ \E S \in SUBSET ObjNames : bucket = Populated(SortNames(S), 1)
    /\ versioning = FALSE
    /\ order = "asc"
    /\ Prefix \in Prefixes
    /\ clock = Cardinality({n \in ObjNames : Len(bucket[n]) > 0})
    /\ store = NoStore
    /\ res = NoRes
    /\ \E size \in 1..MaxPage : lb = [IdleLB EXCEPT !.pageSize = size]
    /\ cfg = "none"

NextListBlocks ==
    \/ \E prefix \in ListPrefixes : LBStart(prefix)
    \/ \E ok \in BOOLEAN : LBFirstPage(ok)
    \/ LBSend
    \/ \E ok \in BOOLEAN : LBNextPage(ok)
    \/ LBBreak
    \/ LBClose
    \/ LBReceive

SpecListBlocks == InitListBlocks /\ [][NextListBlocks]_vars

\* the call without its history: the page requests are followed without a limit
InitListBlocksFair ==
    /\ rvs = <<>>
    /\ resolved = {}
    /\ \E S \in SUBSET ObjNames : bucket = Populated(SortNames(S), 1)
    /\ versioning = FALSE
    /\ order = "asc"
    /\ Prefix \in Prefixes
    /\ clock = Cardinality({n \in ObjNames : Len(bucket[n]) > 0})
    /\ store = NoStore
    /\ res = NoRes
    /\ \E size \in 1..MaxPage :
           lb = [IdleLB EXCEPT !.pageSize = size, !.logging = FALSE]
    /\ cfg = "none"

\* the steps of the goroutine ListBlocks starts
Producer ==
    \/ \E ok \in BOOLEAN : LBFirstPage(ok)
    \/ LBSend
    \/ \E ok \in BOOLEAN : LBNextPage(ok)
    \/ LBBreak
    \/ LBClose

\* the goroutine is scheduled and the backend answers every request, and the
\* consumer keeps receiving
SpecListBlocksFair ==
    /\ InitListBlocksFair
    /\ [][NextListBlocks]_vars
    /\ WF_vars(Producer)
    /\ WF_vars(LBReceive)

-----------------------------------------------------------------------------
(* NewGCSStorage and gcsStorage.Configuration *)

gcsStorageType == "gcs"

BucketNames == {<<>>, <<"b">>, <<"b", "2">>}

\* GCSStorageOptions; Token "nil" is the nil *oauth2.Token
StorageOptions ==
    [BucketName : BucketNames, Prefix : Prefixes, TokenCacheFile : {<<>>, <<"f">>},
     Token : {"nil", "given"}, ReadOnly : BOOLEAN, IgnoreDefaultCredentials : BOOLEAN]

NoOptions ==
    [BucketName |-> <<>>, Prefix |-> <<>>, TokenCacheFile |-> <<>>, Token |-> "nil",
     ReadOnly |-> FALSE, IgnoreDefaultCredentials |-> FALSE]

\* what the environment answers during a construction: whether the default
\* client is available, whether the token is obtained from the web and from the
\* cache file, and whether gcsclient.New succeeds
Environments ==
    [defaultClient : BOOLEAN, web : BOOLEAN, file : BOOLEAN, new : BOOLEAN]

\* NewGCSStorage: the handle's GCSStorageOptions (a copy of options), or an error
NewGCSStorage(options, env) ==
    LET needToken == options.IgnoreDefaultCredentials \/ ~env.defaultClient
        fromWeb == options.Token = "nil" /\
                       (options.TokenCacheFile = <<>> \/ ~env.file)
        gcs == IF needToken /\ options.Token = "nil" /\ options.TokenCacheFile = <<>>
                    /\ env.web
               THEN [options EXCEPT !.Token = "web"]
               ELSE options
    IN  IF options.BucketName = <<>>
        THEN [err |-> "bucket name must be specified", gcs |-> NoOptions]
        ELSE IF needToken /\ fromWeb /\ ~env.web
        THEN [err |-> "cannot retrieve OAuth2 token", gcs |-> NoOptions]
        ELSE IF ~env.new
        THEN [err |-> "Unable to create GCS client", gcs |-> NoOptions]
        ELSE [err |-> "nil", gcs |-> gcs]

\* Configuration with the options of a new, empty GCSStorageOptions but the bucket
ConfigurationOfBucketOnly(gcs) ==
    [Type |-> gcsStorageType, Config |-> [NoOptions EXCEPT !.BucketName = gcs.BucketName]]

\* gcsStorage.Configuration
Configuration(gcs) ==
    [Type |-> gcsStorageType, Config |-> gcs]

NoConfiguration == [Type |-> "", Config |-> NoOptions]

InitConfiguration ==
    /\ rvs = <<>>
    /\ resolved = {}
    /\ IdleStorage
    /\ \E o \in StorageOptions :
           cfg = [pc |-> "options", options |-> o, gcs |-> NoOptions, err |-> "nil",
                  conf |-> NoConfiguration, gcs2 |-> NoOptions, err2 |-> "nil"]

\* the storage is constructed from the options
CfgNew(env) ==
    LET r == NewGCSStorage(cfg.options, env)
    IN  /\ cfg.pc = "options"
        /\ cfg' = [cfg EXCEPT !.pc = IF r.err = "nil" THEN "built" ELSE "failed",
                              !.gcs = r.gcs, !.err = r.err]
        /\ UNCHANGED <<rvs, resolved, bucket, versioning, order, Prefix, clock, store,
                       res, lb>>

\* Configuration() is called on the storage
CfgConfiguration ==
    /\ cfg.pc = "built"
    /\ cfg' = [cfg EXCEPT !.pc = "configured", !.conf = Configuration(cfg.gcs)]
    /\ UNCHANGED <<rvs, resolved, bucket, versioning, order, Prefix, clock, store,
                   res, lb>>

\* a second storage is constructed from that configuration
CfgReconstruct(env) ==
    LET r == NewGCSStorage(cfg.conf.Config, env)
    IN  /\ cfg.pc = "configured"
        /\ cfg.conf.Type = gcsStorageType
        /\ cfg' = [cfg EXCEPT !.pc = IF r.err = "nil" THEN "rebuilt" ELSE "refailed",
                              !.gcs2 = r.gcs, !.err2 = r.err]
        /\ UNCHANGED <<rvs, resolved, bucket, versioning, order, Prefix, clock, store,
                       res, lb>>

NextConfiguration ==
    \/ \E env \in Environments : CfgNew(env)
    \/ CfgConfiguration
    \/ \E env \in Environments : CfgReconstruct(env)

SpecConfiguration == InitConfiguration /\ [][NextConfiguration]_vars

-----------------------------------------------------------------------------

(* C1: for a version sequence sorted by descending Timestamp, the resolver  *)
(* returns found=true with the record of greatest Timestamp <= t when that  *)
(* record is no delete marker, and found=false when there is no such record *)
(* or it is a delete marker.                                                *)
EligibleAt(vs, t) == {i \in 1..Len(vs) : vs[i].Timestamp =< t}

WinnerAt(vs, t) ==
    CHOOSE i \in EligibleAt(vs, t) :
        \A j \in EligibleAt(vs, t) : vs[j].Timestamp =< vs[i].Timestamp

ResolvesAsSpecified(vs, r) ==
    IF EligibleAt(vs, r.t) = {} \/ vs[WinnerAt(vs, r.t)].IsDeleteMarker
    THEN ~r.found
    ELSE r.found /\ r.v = vs[WinnerAt(vs, r.t)]

C1_ResolverOnDescending ==
    IsDescending(rvs) => \A r \in resolved : ResolvesAsSpecified(rvs, r)

(* C7: monotonicity. If resolving at t1 finds a live version and no delete  *)
(* marker has t1 < Timestamp <= t2, resolving at t2 > t1 finds one too.     *)
NoMarkerBetween(vs, t1, t2) ==
    \A i \in 1..Len(vs) :
        ~(vs[i].IsDeleteMarker /\ t1 < vs[i].Timestamp /\ vs[i].Timestamp =< t2)

C7_Monotone ==
    \A r1, r2 \in resolved :
        (r1.t < r2.t /\ r1.found /\ NoMarkerBetween(rvs, r1.t, r2.t)) => r2.found

\* a later horizon that resolves to a newer live version, past an older marker
C7_Witness ==
    \E r1, r2 \in resolved :
        /\ r1.t < r2.t /\ r1.found /\ NoMarkerBetween(rvs, r1.t, r2.t)
        /\ r2.found /\ r2.v.Timestamp > r1.v.Timestamp
        /\ \E i \in 1..Len(rvs) : rvs[i].IsDeleteMarker

-----------------------------------------------------------------------------
(* What the bucket's history says, independently of the listing code *)

\* the generation of object n that was current at time t, as a set
CurrentAt(n, t) ==
    {g \in {bucket[n][i] : i \in 1..Len(bucket[n])} :
        g.Created =< t /\ (g.Deleted = 0 \/ g.Deleted > t)}

\* the version records of object n as the view with horizon t sees them
RecordsOf(n, qp, t) ==
    LET gens == IF order = "asc" THEN bucket[n] ELSE Reverse(bucket[n])
    IN  [i \in 1..Len(gens) |-> getVersionMetadata(qp, gens[i], t)]

ListedNames(qp) ==
    LET Listed(n) == HasPrefix(n, qp) /\ Len(bucket[n]) > 0
    IN  SelectSeq(SortedObjNames, Listed)

\* one callback per listed object the resolver finds, in listing order
RECURSIVE ExpectedCbs(_, _, _)
ExpectedCbs(names, qp, t) ==
    IF Len(names) = 0 THEN <<>>
    ELSE LET r == newestAtUnlessDeleted(RecordsOf(names[1], qp, t), t)
         IN  (IF r.found THEN <<Metadata(r.v)>> ELSE <<>>)
             \o ExpectedCbs(Tail(names), qp, t)

SameVersion(v, g) ==
    v.Timestamp = g.Created /\ v.Length = g.Size /\ v.Version = g.Generation

Undisturbed == res.failedAt = 0 /\ res.cbFailedAt = 0

(* C2: GetMetadata(x) on a view with horizon T returns the version of x that *)
(* was current at T, and NotFound when x was not yet written or was deleted  *)
(* by T.                                                                     *)
C2_GetMetadataCurrentAtT ==
    (res.op = "GetMetadata" /\ Undisturbed) =>
        LET cur == CurrentAt(getObjectNameString(res.arg), store.pit)
        IN  IF cur = {} THEN res.err = "NotFound"
            ELSE res.err = "nil" /\ \A g \in cur : SameVersion(res.out, g)

(* C3: a delete marker older than the newest record at or before T does not *)
(* hide the blob: when that newest record is no delete marker, GetMetadata   *)
(* and ListBlobs find the blob and return that record.                       *)
MaskedMarker(n, t) ==
    LET vs == RecordsOf(n, <<>>, t)
    IN  /\ EligibleAt(vs, t) # {}
        /\ ~vs[WinnerAt(vs, t)].IsDeleteMarker
        /\ \E i \in 1..Len(vs) :
               vs[i].IsDeleteMarker /\ vs[i].Timestamp < vs[WinnerAt(vs, t)].Timestamp

NewestAt(n, t) ==
    LET vs == RecordsOf(n, <<>>, t) IN vs[WinnerAt(vs, t)]

C3_MaskedMarkerDoesNotHide ==
    /\ (res.op = "GetMetadata" /\ Undisturbed
            /\ MaskedMarker(getObjectNameString(res.arg), store.pit)) =>
           /\ res.err = "nil"
           /\ res.out.Timestamp = NewestAt(getObjectNameString(res.arg), store.pit).Timestamp
    /\ (res.op = "ListBlobs" /\ Undisturbed) =>
           \A n \in ObjNames :
               (HasPrefix(n, getObjectNameString(res.arg)) /\ MaskedMarker(n, store.pit)) =>
                   \E k \in 1..Len(res.cbs) :
                       res.cbs[k].Timestamp = NewestAt(n, store.pit).Timestamp

C5_ViewIsReadOnly ==
    (store.kind = "view" /\ res.via = "store") =>
        /\ ~res.changed
        /\ res.calls \cap {"Insert", "Delete"} = {}
        /\ res.op \in {"Put", "Delete"} => res.err # "nil"

\* a Put on the view of a bucket that holds objects was rejected
C5_Witness ==
    /\ store.kind = "view" /\ res.via = "store" /\ res.op = "Put"
    /\ res.err = "readonly"
    /\ \E n \in ObjNames : Len(bucket[n]) > 0

(* C6: maybePointInTimeStore returns the live backend without probing when T *)
(* is unset or zero, fails with a configuration error when T is non-zero and *)
(* the bucket is not versioned, and returns a read-only view when T is       *)
(* non-zero and the bucket is versioned; a failed construction returns no    *)
(* storage, and nothing is listed or fetched through it.                     *)
Constructed == res.op = "maybePointInTimeStore"

ZeroPIT(pit) == pit.isNil \/ pit.t = 0

NothingOnFailure ==
    /\ (Constructed /\ res.err # "nil") => store.kind = "nil"
    /\ (Constructed /\ res.err = "nil") => store.kind \in {"live", "view"}
    /\ Constructed => res.calls \subseteq {"Attrs"}
    /\ store.kind = "nil" => res.via # "store"

C8_CallbackErrorAborts ==
    (res.op = "ListBlobs" /\ res.cbFailedAt # 0) =>
        /\ res.err = "cb"
        /\ Len(res.cbs) = res.cbFailedAt

\* cb failed on its first invocation although a second blob would have been reported
C8_Witness ==
    /\ res.op = "ListBlobs" /\ res.cbFailedAt = 1 /\ res.err = "cb"
    /\ Len(ExpectedCbs(ListedNames(getObjectNameString(res.arg)),
                       getObjectNameString(res.arg), store.pit)) >= 2

\* cb failed on the invocation for the last blob of the stream
C8_LastBlobCase ==
    /\ res.op = "ListBlobs" /\ res.cbFailedAt = 2 /\ res.err = "cb"
    /\ Len(ExpectedCbs(ListedNames(getObjectNameString(res.arg)),
                       getObjectNameString(res.arg), store.pit)) = 2

(* C9: when the iterator fails (or reports the cancelled context) during an *)
(* enumeration, the call returns an error: ListBlobs neither resolves nor    *)
(* reports the group that was pending, GetMetadata returns no version.       *)
\* the names whose group was closed before the failing it.Next, number failedAt
ClosedBefore(names, failedAt) ==
    LET Upto(k) == Len(Concat(SubSeq(names, 1, k), bucket))
        closed == {k \in 0..Len(names) : k = 0 \/ Upto(k) < failedAt - 1}
    IN  SubSeq(names, 1, CHOOSE k \in closed : \A j \in closed : j =< k)

Delivered == lb.pc = "done" /\ Len(lb.ch) = 0 /\ ~lb.failed

C10_EveryObjectOnce ==
    /\ Delivered =>
           lb.received = [k \in 1..Len(LiveObjects(lb.ps)) |->
                             BlockMetadata(LiveObjects(lb.ps)[k])]
    /\ \A i \in 1..Len(lb.tokens) : lb.tokens[i].sent = lb.tokens[i].returned

(* C11: when a page fetch of ListBlocks fails, the consumer observes a       *)
(* failure: the closed channel has carried an item with an error, and the    *)
(* listing is not presented as a complete enumeration of the pages before.   *)
ErrorObserved ==
    \E k \in 1..Len(lb.received) : lb.received[k].Error # "nil"

C11_PageFailureIsObserved ==
    (lb.pc = "done" /\ Len(lb.ch) = 0 /\ lb.failed) => ErrorObserved

-----------------------------------------------------------------------------
(* The adapter's operations on one blob id *)

ThroughAdapter == res.calls \cap {"Insert", "Delete", "Get"} # {}

(* C12: put, get, exists and delete on a blob id address the object named   *)
(* Prefix+id, so a handle never touches a name outside its prefix; after     *)
(* Delete(id), Get(id) through the same handle fails with NotFound.          *)
C12_OperationsAddressPrefixedName ==
    /\ ThroughAdapter => res.addressed = {getObjectNameString(res.arg)}
    /\ (ThroughAdapter /\ res.op = "Delete") => GetBlock(res.arg, TRUE).err = "NotFound"

(* C13: Delete(id) of a blob that does not exist, or was already deleted,    *)
(* succeeds and leaves the store unchanged.                                  *)
C13_DeleteIsIdempotent ==
    (ThroughAdapter /\ res.op = "Delete" /\ ~res.existed) =>
        res.err = "nil" /\ ~res.changed

(* C14: Put with Overwrite=false on an id that has a current version fails   *)
(* with AlreadyExists and leaves the content unchanged; Put with             *)
(* Overwrite=true, or on an id with no current version, creates a new        *)
(* current version.                                                          *)
C14_PutWithoutOverwrite ==
    (ThroughAdapter /\ res.op = "Put") =>
        IF ~res.overwrite /\ res.existed
        THEN res.err = "AlreadyExists" /\ ~res.changed
        ELSE /\ res.err = "nil" /\ res.changed
             /\ GetBlock(res.arg, TRUE).data = 2 * clock

(* C15: Configuration() of a storage constructed from options has the type   *)
(* tag of the backend and the bucket name and prefix of the options, and a   *)
(* storage constructed again from it addresses the same objects.             *)
C15_ConfigurationRoundTrip ==
    /\ cfg.pc \in {"configured", "rebuilt", "refailed"} =>
           /\ cfg.conf.Type = gcsStorageType
           /\ cfg.conf.Config.BucketName = cfg.options.BucketName
           /\ cfg.conf.Config.Prefix = cfg.options.Prefix
    /\ cfg.pc = "rebuilt" =>
           /\ cfg.gcs2.BucketName = cfg.gcs.BucketName
           /\ \A id \in IDs : cfg.gcs2.Prefix \o id = cfg.gcs.Prefix \o id

\* a storage with a prefix, whose token came from the web, was constructed again
C15_Witness ==
    /\ cfg.pc = "rebuilt"
    /\ cfg.options.Prefix # <<>>
    /\ cfg.options.Token = "nil" /\ cfg.gcs.Token = "web"
    /\ cfg.gcs2.Prefix = cfg.options.Prefix

-----------------------------------------------------------------------------
(* C16: the horizon is inclusive. A version created at exactly T is visible  *)
(* at T; a blob deleted at exactly T does not exist at T: GetMetadata        *)
(* returns NotFound and ListBlobs does not report it.                        *)
CreatedAt(n, t) == \E i \in 1..Len(bucket[n]) : bucket[n][i].Created = t

\* the deletion at t is the most recent record of n at or before t
DeletedAt(n, t) ==
    /\ \E i \in 1..Len(bucket[n]) : bucket[n][i].Deleted = t
    /\ ~CreatedAt(n, t)

\* the callbacks of the last ListBlobs that report a version of object n
ReportsOf(n) ==
    {k \in 1..Len(res.cbs) : CreatedAt(n, res.cbs[k].Timestamp)}

CreationIsInclusive ==
    /\ (res.op = "GetMetadata" /\ Undisturbed
            /\ CreatedAt(getObjectNameString(res.arg), store.pit)) =>
           res.err = "nil" /\ res.out.Timestamp = store.pit
    /\ (res.op = "ListBlobs" /\ Undisturbed) =>
           \A n \in ObjNames :
               (HasPrefix(n, getObjectNameString(res.arg)) /\ CreatedAt(n, store.pit)) =>
                   \E k \in ReportsOf(n) : res.cbs[k].Timestamp = store.pit

DeletionIsInclusive ==
    /\ (res.op = "GetMetadata" /\ Undisturbed
            /\ DeletedAt(getObjectNameString(res.arg), store.pit)) =>
           res.err = "NotFound"
    /\ (res.op = "ListBlobs" /\ Undisturbed) =>
           \A n \in ObjNames :
               (HasPrefix(n, getObjectNameString(res.arg)) /\ DeletedAt(n, store.pit)) =>
                   ReportsOf(n) = {}

C16_HorizonIsInclusive == CreationIsInclusive /\ DeletionIsInclusive

-----------------------------------------------------------------------------
(* C17: getBlobVersions(id) passes to its callback every version of the      *)
(* object named exactly Prefix+id and no version of an object that only      *)
(* starts with that name, and returns NotFound exactly when the backend      *)
(* holds no version under that name. A generation number names one version   *)
(* of one object in the whole bucket.                                        *)
GenerationsOf(n) == {bucket[n][i].Generation : i \in 1..Len(bucket[n])}

C17_VersionsOfExactName ==
    (res.op = "GetMetadata" /\ Undisturbed) =>
        /\ {res.passed[k].Version : k \in 1..Len(res.passed)} =
               GenerationsOf(getObjectNameString(res.arg))
        /\ Len(res.passed) = Len(bucket[getObjectNameString(res.arg)])
        /\ res.versionsErr \in {"nil", "NotFound"}
        /\ res.versionsErr = "NotFound" <=> bucket[getObjectNameString(res.arg)] = <<>>

\* the versions of "a" were asked for while "a1" had versions as well
C17_Witness ==
    /\ res.op = "GetMetadata" /\ Undisturbed /\ res.arg = <<"a">>
    /\ Len(res.passed) >= 2
    /\ bucket[getObjectNameString(<<"a", "1">>)] # <<>>

\* no version under the exact name, but some under a name that starts with it
C17_NotFoundCase ==
    /\ res.op = "GetMetadata" /\ Undisturbed /\ res.arg = <<"a">>
    /\ res.versionsErr = "NotFound"
    /\ bucket[getObjectNameString(<<"a", "1">>)] # <<>>

-----------------------------------------------------------------------------
(* C18: GetBlob(id) on the view fetches the payload of exactly the version   *)
(* GetMetadata(id) resolves at T, also when newer versions of id exist; when *)
(* the resolution fails it returns that error and fetches nothing.           *)
C18_GetBlobFetchesResolvedVersion ==
    res.op = "GetBlob" =>
        LET m == getMetadata(res.arg, store.pit, res.failedAt)
        IN  IF m.err # "nil"
            THEN res.err = m.err /\ res.fetched = {} /\ "Download" \notin res.calls
            ELSE /\ res.err = "nil"
                 /\ res.fetched = {[Name |-> getObjectNameString(res.arg),
                                    Generation |-> m.v.Version]}
                 /\ res.data = m.v.Length

\* the payload of a version older than the object's latest was fetched
C18_Witness ==
    /\ res.op = "GetBlob" /\ res.err = "nil"
    /\ \E f \in res.fetched : \E g \in GenerationsOf(f.Name) : g > f.Generation

\* the resolution failed with NotFound and nothing was fetched
C18_NotFoundCase ==
    /\ res.op = "GetBlob" /\ res.err = "NotFound" /\ res.fetched = {}
    /\ bucket[getObjectNameString(res.arg)] # <<>>

-----------------------------------------------------------------------------
(* C19: ListBlobs and GetMetadata agree, whatever the order in which the     *)
(* backend lists the versions of one object: ListBlobs(prefix) reports a     *)
(* blob exactly when GetMetadata of it succeeds, and then both return the    *)
(* same version.                                                             *)
C19_ListAndGetAgree ==
    (res.op = "ListBlobs" /\ Undisturbed) =>
        \A n \in ObjNames :
            HasPrefix(n, getObjectNameString(res.arg)) =>
                LET m == getMetadata(TrimPrefix(n, Prefix), store.pit, 0)
                IN  /\ ReportsOf(n) # {} <=> m.err = "nil"
                    /\ \A k \in ReportsOf(n) :
                           /\ res.cbs[k].Timestamp = m.v.Timestamp
                           /\ res.cbs[k].Length = m.v.Length

(* C20: the metadata of a view carries the caller's blob ID: GetMetadata(id) *)
(* returns BlobID = id, and every metadata ListBlobs(prefix) passes to cb    *)
(* has a BlobID that starts with prefix and is the object's name without the *)
(* storage prefix.                                                           *)
C20_MetadataCarriesBlobID ==
    /\ (res.op = "GetMetadata" /\ res.err = "nil") => res.out.BlobID = res.arg
    /\ res.op = "ListBlobs" =>
           \A k \in 1..Len(res.cbs) :
               /\ HasPrefix(res.cbs[k].BlobID, res.arg)
               /\ \A n \in ObjNames :
                      CreatedAt(n, res.cbs[k].Timestamp) =>
                          Prefix \o res.cbs[k].BlobID = n

-----------------------------------------------------------------------------
(* C21: whatever the backend answers, the goroutine started by ListBlocks    *)
(* eventually closes the channel when the consumer keeps receiving, it never *)
(* sends on the channel after closing it, and it does not go on requesting   *)
(* pages for ever.                                                           *)
NoSendAfterClose == [](lb.closed => lb.pc = "done")

EventuallyClosed == (lb.pc # "idle") ~> lb.closed

C21_ProducerTerminates == NoSendAfterClose /\ EventuallyClosed

====
